---- MODULE Spec2Model ----
(***************************************************************************)
(* A model of the RealEstate-US property analysis pipeline:                *)
(*   - DirectFirecrawlAgent.find_properties_direct  (the Extraction Client)*)
(*   - run_sequential_analysis                      (the orchestrator)     *)
(*   - extract_property_valuation                   (the section extractor)*)
(* Strings are sequences of character tokens; Python dicts are TLA+        *)
(* functions whose DOMAIN is the set of keys.                              *)
(***************************************************************************)
EXTENDS Integers, Sequences, FiniteSets, TLC

VARIABLES
    pc,                       \* position of the run inside run_sequential_analysis
    client,                   \* "direct": DirectFirecrawlAgent; "stub": a stubbed Extraction Client
    city, state,              \* arguments of the run
    selected_websites,        \* argument of the run (only membership is ever read)
    urls_to_search,           \* find_properties_direct: the filtered URL list
    found_properties,         \* find_properties_direct: its local properties
    total_count,              \* find_properties_direct: its local total_count
    first_norm,               \* history: the locals as normalized from the first call
    fb_raised,                \* history: the inner try block caught an exception
    outer_raised,             \* history: the outer try block caught an exception
    properties_data,          \* the value find_properties_direct returned
    properties,               \* run_sequential_analysis: its local properties
    calls,                    \* log of the external calls, in the order issued
    progress,                 \* log of the fractions given to update_callback (in 1/100)
    market_analysis,          \* market_result.content
    property_valuations,      \* valuation_result.content
    properties_for_valuation, \* the summaries embedded in the valuation prompt
    properties_display,       \* the Markdown blocks, one per property
    outcome,                  \* how run_sequential_analysis ended
    tx_pc, tx_text, tx_number, tx_address, tx_result, \* extract_property_valuation
    dp_pc, dp_properties, dp_avg_price, \* display_properties_professionally
    nm_pc,                    \* two calls of find_properties_direct side by side, one
    nm_first, nm_retry,       \* served object-style responses, the other mapping-style
    nm_results                \* ones with the same success flags and payloads

vars == <<pc, client, city, state, selected_websites, urls_to_search,
          found_properties, total_count, first_norm, fb_raised, outer_raised,
          properties_data, properties, calls,
          progress, market_analysis, property_valuations, properties_for_valuation,
          properties_display, outcome, tx_pc, tx_text, tx_number, tx_address, tx_result,
          dp_pc, dp_properties, dp_avg_price, nm_pc, nm_first, nm_retry, nm_results>>

pipe_vars == <<pc, client, city, state, selected_websites, urls_to_search,
          found_properties, total_count, first_norm, fb_raised, outer_raised,
          properties_data, properties, calls,
          progress, market_analysis, property_valuations, properties_for_valuation,
          properties_display, outcome>>

text_vars == <<tx_pc, tx_text, tx_number, tx_address, tx_result>>

display_vars == <<dp_pc, dp_properties, dp_avg_price>>

shape_vars == <<nm_pc, nm_first, nm_retry, nm_results>>

----------------------------------------------------------------------------
(* Bounds of the model *)

\* longest property list a response or a stub carries
MaxProps == 2
\* largest total_count a response reports
MaxCount == 2
\* number of segments a valuation text is assembled from
MaxSegs == 3
\* the most properties handed to the display
MaxShown == 3

----------------------------------------------------------------------------
(* Strings as sequences of character tokens *)

\* str.lower() / str.upper(), token by token
LowerTok(c) ==
    CASE c = "N" -> "n" [] c = "Y" -> "y" [] c = "A" -> "a"
      [] c = "Oak" -> "oak" [] c = "St" -> "st" [] c = "Property" -> "property"
      [] OTHER -> c

UpperTok(c) ==
    CASE c = "n" -> "N" [] c = "y" -> "Y" [] c = "a" -> "A"
      [] OTHER -> c

Lower(s) == [i \in 1..Len(s) |-> LowerTok(s[i])]
Upper(s) == [i \in 1..Len(s) |-> UpperTok(s[i])]

\* s.replace(' ', by) for a one-character replacement
ReplaceSpace(s, by) == [i \in 1..Len(s) |-> IF s[i] = " " THEN by ELSE s[i]]

----------------------------------------------------------------------------
(* Input data *)

\* config.AVAILABLE_WEBSITES, and the key order of the search_urls dict
AVAILABLE_WEBSITES == <<"Zillow", "Realtor.com", "Trulia", "Homes.com">>

KnownSites == {AVAILABLE_WEBSITES[i] : i \in 1..Len(AVAILABLE_WEBSITES)}

\* the site names a caller may pass: the known ones and one unknown identifier
SiteNames == KnownSites \cup {"Redfin"}

\* (city, state) arguments; the state may be the empty string
Places == { <<(<<"N", " ", "Y">>), (<<"n", "y">>)>>, <<(<<"a">>), (<<>>)>> }

\* a field of a property record that is not there
Absent == "ABSENT"

\* a property record: mapping-style (dict) or attribute-style (object)
Prop(shape, address, price, bedrooms) ==
    [shape |-> shape, address |-> address, price |-> price, property_type |-> Absent,
     bedrooms |-> bedrooms, bathrooms |-> Absent, square_feet |-> Absent,
     agent_contact |-> Absent, description |-> Absent, listing_url |-> Absent]

PropertyPool ==
    { [Prop("dict", "12 Oak St", "$500,000", "3")
          EXCEPT !.listing_url = "https://example.com/listing/42"],
      Prop("dict", Absent, "$750,000", Absent),
      Prop("object", "7 Elm Rd", Absent, "2") }

\* all sequences over S of length at most n
SeqsUpTo(S, n) == UNION { [1..k -> S] : k \in 0..n }

PropLists == SeqsUpTo(PropertyPool, MaxProps)

\* a value where a list is expected: a list, or None (which has no len())
ListOf(l) == [k |-> "list", v |-> l]
Null == [k |-> "null", v |-> <<>>]

\* the value under a key of a payload: missing, null, or there
NoKey == [k |-> "absent", v |-> <<>>]
NoCount == [k |-> "absent", v |-> 0]
CountOf(n) == [k |-> "int", v |-> n]

\* the data of a service response: the attribute / key is missing, it is
\* there but no mapping (None), or it is a mapping with these keys
NoData == [k |-> "nodata", properties |-> NoKey, total_count |-> NoCount]
NonMapping == [k |-> "nonmapping", properties |-> NoKey, total_count |-> NoCount]
Payloads ==
    [k : {"mapping"},
     properties : {NoKey, Null} \cup {ListOf(l) : l \in PropLists},
     total_count : {NoCount} \cup {CountOf(n) : n \in 0..MaxCount}]

\* what self.firecrawl.extract may return: an object with attributes, a plain
\* mapping, or anything else
Responses ==
    [shape : {"object", "mapping"}, success : {TRUE}, data : {NoData, NonMapping} \cup Payloads]
    \cup [shape : {"object", "mapping"}, success : {FALSE},
          data : {NoData, [k |-> "mapping", properties |-> ListOf(<<>>),
                           total_count |-> CountOf(1)]}]
    \cup {[shape |-> "other", success |-> FALSE, data |-> NoData]}

\* the narratives, as sequences of pieces of text: a word, a punctuation
\* mark, a blank, a scheme, or a whole URL
MarketTexts ==
    { <<"buyers", " ", "market">>,
      <<"see", " ", "https://example.com/listing/42", ".", " ", "or", " ",
        "https://example.com/listing/42", " ", "http://", " ", "market">> }
ValuationTexts ==
    { <<"fair", " ", "value">>,
      <<"compare", " ", "https://example.com/listing/42", "\n",
        "https://example.com/listing/7", ")", " ", "https://example.com/listing/42">> }

----------------------------------------------------------------------------
(* find_properties_direct *)

\* lines 43-54: the URL templates, one per known site
search_urls(c, st) ==
    LET city_formatted == Lower(ReplaceSpace(c, "-"))
        state_upper == IF st # <<>> THEN Upper(st) ELSE <<>>
        state_lower == IF st # <<>> THEN Lower(st) ELSE <<>>
        city_trulia == ReplaceSpace(c, "_")
    IN [site \in KnownSites |->
         CASE site = "Zillow" ->
                <<"https://www.zillow.com/homes/for_sale/">> \o city_formatted
                    \o <<"-">> \o state_upper \o <<"/">>
           [] site = "Realtor.com" ->
                <<"https://www.realtor.com/realestateandhomes-search/">> \o city_formatted
                    \o <<"_">> \o state_upper \o <<"/pg-1">>
           [] site = "Trulia" ->
                <<"https://www.trulia.com/">> \o state_upper \o <<"/">> \o city_trulia
                    \o <<"/">>
           [] site = "Homes.com" ->
                <<"https://www.homes.com/homes-for-sale/">> \o city_formatted
                    \o <<"-">> \o state_lower \o <<"/">>]

\* the filter dropped: every known site is searched
SiteSelected_NoFilter(site, sel) == TRUE

\* the filter inverted: the unselected sites are searched
SiteSelected_Inverted(site, sel) == site \notin sel

\* line 57: the comprehension's condition, site in selected_websites
SiteSelected(site, sel) == site \in sel

\* line 57: [url for site, url in search_urls.items() if site in selected_websites]
RECURSIVE FilterUrls(_, _, _)
FilterUrls(i, urlOf, sel) ==
    IF i > Len(AVAILABLE_WEBSITES) THEN <<>>
    ELSE (IF SiteSelected(AVAILABLE_WEBSITES[i], sel)
            THEN <<urlOf[AVAILABLE_WEBSITES[i]]>> ELSE <<>>)
         \o FilterUrls(i + 1, urlOf, sel)

UrlsToSearch(c, st, sel) == FilterUrls(1, search_urls(c, st), sel)

\* data.get('properties', []) and data.get('total_count', default)
GetProperties(d) == IF d.properties.k = "absent" THEN ListOf(<<>>) ELSE d.properties
GetCount(d, default) == IF d.total_count.k = "absent" THEN default ELSE d.total_count.v

\* len(p) is defined: p is a list, not None
HasLen(p) == p.k = "list"

\* lines 120-135: normalization of the first response. raised: an exception
\* left the block (None.get, KeyError 'data', len(None))
NormalizeFirst(r) ==
    LET ok(p, t) == [raised |-> ~HasLen(p), properties |-> p, total_count |-> t]
        boom == [raised |-> TRUE, properties |-> ListOf(<<>>), total_count |-> 0]
    IN IF r.shape = "object" /\ r.success
         THEN IF r.data.k = "nodata" THEN ok(ListOf(<<>>), 0)
              ELSE IF r.data.k = "nonmapping" THEN boom
              ELSE ok(GetProperties(r.data), GetCount(r.data, 0))
       ELSE IF r.shape = "mapping" /\ r.success
         THEN IF r.data.k # "mapping" THEN boom
              ELSE ok(GetProperties(r.data), GetCount(r.data, 0))
       ELSE ok(ListOf(<<>>), 0)

\* the retry taken on every empty list, whatever the service counted
NeedsFallback_AnyEmpty(p, t) == Len(p.v) = 0

\* line 138: the condition of the schema-free retry
NeedsFallback(p, t) == Len(p.v) = 0 /\ t > 0

\* lines 156-157 / 161-162: properties is assigned first; the default of
\* total_count, len(properties), is evaluated eagerly and raises on None
AssignFromRaw(raw_data, p, t) ==
    LET p2 == GetProperties(raw_data)
    IN IF HasLen(p2)
         THEN [raised |-> FALSE, properties |-> p2,
               total_count |-> GetCount(raw_data, Len(p2.v))]
         ELSE [raised |-> TRUE, properties |-> p2, total_count |-> t]

\* lines 153-163: handling of the second response, given the current locals
HandleFallback(r, p, t) ==
    LET same == [raised |-> FALSE, properties |-> p, total_count |-> t]
        empty == [k |-> "mapping", properties |-> NoKey, total_count |-> NoCount]
    IN IF r.shape = "object" /\ r.success /\ r.data.k # "nodata"
         THEN IF r.data.k = "nonmapping" THEN same ELSE AssignFromRaw(r.data, p, t)
       ELSE IF r.shape = "mapping" /\ r.success
         THEN IF r.data.k = "nonmapping" THEN [same EXCEPT !.raised = TRUE]
              ELSE IF r.data.k = "nodata" THEN AssignFromRaw(empty, p, t)
              ELSE AssignFromRaw(r.data, p, t)
       ELSE same

\* an error message: its fixed text and the count it embeds
Message(text, n) == [text |-> text, count |-> n]

\* lines 170-175
SuccessResult(p, sel) ==
    [success |-> TRUE, properties |-> p, total_count |-> Len(p), source_websites |-> sel]

\* lines 63, 200, 203
ErrorResult(msg) == [error |-> msg]

\* lines 167-203: the value returned once the locals are final; formatting
\* the message of line 178 takes len(properties), which raises on None
ReturnRaises(p) == ~HasLen(p)

\* an empty list returned as a success instead of the error of line 200
FindResult_EmptySuccess(p, t, sel) ==
    IF ReturnRaises(p) THEN ErrorResult(Message("Firecrawl extraction failed", 0))
    ELSE SuccessResult(p.v, sel)

FindResult(p, t, sel) ==
    IF ReturnRaises(p) THEN ErrorResult(Message("Firecrawl extraction failed", 0))
    ELSE IF Len(p.v) > 0 THEN SuccessResult(p.v, sel)
    ELSE ErrorResult(Message("No properties extracted despite finding", t))

----------------------------------------------------------------------------
(* run_sequential_analysis *)

\* prop.get(name, default) / getattr(prop, name, default)
Field(prop, name, default) == IF prop[name] = Absent THEN default ELSE prop[name]

\* enumerate(properties) without the start argument: numbering from 0
Number_ZeroBased(i) == i - 1

\* enumerate(properties, 1): the number paired with the i-th element
Number(i) == i

\* lines 86-105: the summary of one property for the valuation prompt
Summary(i, prop) ==
    [number |-> Number(i),
     address |-> Field(prop, "address", "Address not available"),
     price |-> Field(prop, "price", "Price not available"),
     property_type |-> Field(prop, "property_type", "Type not available"),
     bedrooms |-> Field(prop, "bedrooms", "Not specified"),
     bathrooms |-> Field(prop, "bathrooms", "Not specified"),
     square_feet |-> Field(prop, "square_feet", "Not specified")]

\* lines 84-106
PropertiesForValuation(props) == [i \in 1..Len(props) |-> Summary(i, props[i])]

\* lines 142-178: the Markdown block "### Property {i}: {address} ..."
DisplayBlock(i, prop) ==
    [number |-> Number(i),
     address |-> Field(prop, "address", "Address not available"),
     price |-> Field(prop, "price", "Price not available"),
     property_type |-> Field(prop, "property_type", "Type not available"),
     bedrooms |-> Field(prop, "bedrooms", "Not specified"),
     bathrooms |-> Field(prop, "bathrooms", "Not specified"),
     square_feet |-> Field(prop, "square_feet", "Not specified"),
     agent_contact |-> Field(prop, "agent_contact", "Contact not available"),
     description |-> Field(prop, "description", "No description available"),
     listing_url |-> Field(prop, "listing_url", "#")]

\* lines 139-178
PropertiesDisplay(props) == [i \in 1..Len(props) |-> DisplayBlock(i, props[i])]

\* line 205: json.dumps(properties) raises TypeError on a record that is no dict
JsonDumpsRaises(props) == \E i \in 1..Len(props) : props[i].shape # "dict"

\* the keys json.dumps writes for a mapping-style record
JsonKeys ==
    <<"address", "price", "property_type", "bedrooms", "bathrooms", "square_feet",
      "agent_contact", "description", "listing_url">>

\* line 205: json.dumps(properties, indent=2): each key that is there with
\* its value between double quotes
RECURSIVE JsonRecord(_, _)
JsonRecord(prop, keys) ==
    IF keys = <<>> THEN <<>>
    ELSE (IF prop[Head(keys)] = Absent THEN <<>>
          ELSE <<"\"", Head(keys), "\"", ":", " ", "\"", prop[Head(keys)], "\"", ",", "\n">>)
         \o JsonRecord(prop, Tail(keys))

RECURSIVE JsonDumps(_)
JsonDumps(props) ==
    IF props = <<>> THEN <<>>
    ELSE <<"{", "\n">> \o JsonRecord(Head(props), JsonKeys) \o <<"}", ",", "\n">>
         \o JsonDumps(Tail(props))

\* line 205: all_text
AllText(props, market, valuations) ==
    JsonDumps(props) \o <<" ">> \o market \o <<" ">> \o valuations

\* line 206: 'http[s]?://'
Schemes == {"http://", "https://"}

\* pieces of text that are a scheme followed by characters of the class
WholeUrls ==
    {"https://example.com/listing/42", "https://example.com/listing/7"}

\* line 206: pieces made only of characters the class after the scheme
\* accepts (letters, digits, '$' to '_', '!', '*', '(', ')', ','); a blank, a
\* line break, a double quote and a brace are not accepted
UrlChars ==
    Schemes \cup WholeUrls
        \cup {".", ",", ")", ":", "see", "or", "compare", "fair", "value", "buyers",
              "market"}
        \cup {JsonKeys[i] : i \in 1..Len(JsonKeys)}

\* the pieces from i to j are all accepted
Run(text, i, j) == \A k \in i..j : text[k] \in UrlChars

\* the end of the longest run of accepted pieces that starts at i ('+' is greedy)
RunEnd(text, i) ==
    CHOOSE j \in i..Len(text) :
        Run(text, i, j) /\ (j < Len(text) => text[j + 1] \notin UrlChars)

\* a match can start at i: a whole URL, or a scheme with an accepted piece
\* after it
MatchAt(text, i) ==
    \/ text[i] \in WholeUrls
    \/ text[i] \in Schemes /\ i < Len(text) /\ text[i + 1] \in UrlChars

\* where the matches start: the scan goes from left to right and resumes
\* behind a match, so a start inside an earlier match is not one
MatchStarts(text) ==
    {i \in 1..Len(text) :
        /\ MatchAt(text, i)
        /\ ~\E j \in 1..(i - 1) : MatchAt(text, j) /\ Run(text, j, i)}

\* line 206: re.findall: the matches from left to right
FindAll(text) ==
    LET starts == MatchStarts(text)
        Nth(k) == CHOOSE i \in starts : Cardinality({j \in starts : j < i}) = k - 1
    IN [k \in 1..Cardinality(starts) |-> SubSeq(text, Nth(k), RunEnd(text, Nth(k)))]

\* the link list with one line for each occurrence
LinkOrders_EveryOccurrence(urls) == {urls}

\* line 210: set(urls) in the order the iteration of the set happens to give
LinkOrders(urls) ==
    LET distinct == {urls[i] : i \in 1..Len(urls)}
    IN {order \in [1..Cardinality(distinct) -> distinct] :
           \A i, j \in 1..Cardinality(distinct) : order[i] = order[j] => i = j}

\* lines 208-211: the section "### Available Property Links:", there when a
\* URL was found, with the lines "{i}. {url}"
LinkSection(urls, order) ==
    [present |-> urls # <<>>,
     items |-> [i \in 1..Len(order) |-> [n |-> i, url |-> order[i]]]]

\* total_properties counted 0-based
PipelineResult_OffByOne(props, market, valuations, display, links) ==
    [properties |-> props,
     market_analysis |-> market,
     property_valuations |-> valuations,
     markdown_synthesis |->
         [total |-> Len(props), blocks |-> display, market |-> market,
          valuations |-> valuations, links |-> links],
     total_properties |-> Len(props) - 1]

\* lines 216-222
PipelineResult(props, market, valuations, display, links) ==
    [properties |-> props,
     market_analysis |-> market,
     property_valuations |-> valuations,
     markdown_synthesis |->
         [total |-> Len(props), blocks |-> display, market |-> market,
          valuations |-> valuations, links |-> links],
     total_properties |-> Len(props)]

\* line 52: properties_data.get('properties', [])
ResultProperties(d) == IF "properties" \in DOMAIN d THEN d.properties ELSE <<>>

\* the emptiness test never taken (properties is None instead of not properties)
NoProperties_Never(props) == FALSE

\* line 53: not properties
NoProperties(props) == props = <<>>

\* a misspelt key: the error result is not recognized
HasError_WrongKey(d) == "errors" \in DOMAIN d

\* line 49: "error" in properties_data
HasError(d) == "error" \in DOMAIN d

\* how a run ends: it returns a string, returns the result dict, or raises
Running == [kind |-> "running"]

\* a callback that drops what it is given
update_callback_Dropped(log, fractions) == log

\* lines 34, 56-59, 78-81, 133-136, 213: update_callback(fraction, ...), once
\* for each fraction in turn
update_callback(log, fractions) == log \o fractions

ReturnString(text, detail) == [kind |-> "string", text |-> text, detail |-> detail]
ReturnResult(r) == [kind |-> "result", result |-> r]
\* an exception caught in the core and reported as a string
Raised_Caught(where) == [kind |-> "string", text |-> "Error in analysis", detail |-> where]

Raised(where) == [kind |-> "raised", where |-> where]

\* the results a stubbed Extraction Client may hand to the orchestrator
StubResults(sel) ==
    {ErrorResult(Message("stub failure", 0)), [success |-> TRUE]}
    \cup {SuccessResult(l, sel) : l \in PropLists}

----------------------------------------------------------------------------
(* The pipeline as a state machine *)

\* nothing normalized yet
NoNorm == [done |-> FALSE, properties |-> ListOf(<<>>), total_count |-> 0]

PipeInit ==
    /\ pc = "idle"
    /\ client = "direct"
    /\ city = <<>>
    /\ state = <<>>
    /\ selected_websites = {}
    /\ urls_to_search = <<>>
    /\ found_properties = ListOf(<<>>)
    /\ total_count = 0
    /\ first_norm = NoNorm
    /\ fb_raised = FALSE
    /\ outer_raised = FALSE
    /\ properties_data = [none |-> TRUE]
    /\ properties = <<>>
    /\ calls = <<>>
    /\ progress = <<>>
    /\ market_analysis = <<>>
    /\ property_valuations = <<>>
    /\ properties_for_valuation = <<>>
    /\ properties_display = <<>>
    /\ outcome = Running

TextIdle ==
    /\ tx_pc = "off"
    /\ tx_text = <<>>
    /\ tx_number = 0
    /\ tx_address = <<>>
    /\ tx_result = [kind |-> "none", text |-> <<>>]

\* the display is not in use
DisplayIdle ==
    /\ dp_pc = "idle"
    /\ dp_properties = <<>>
    /\ dp_avg_price = <<>>

\* no side-by-side calls are under way
ShapesIdle ==
    /\ nm_pc = "idle"
    /\ nm_first = [shape |-> "other", success |-> FALSE, data |-> NoData]
    /\ nm_retry = [shape |-> "other", success |-> FALSE, data |-> NoData]
    /\ nm_results = <<>>

Init == PipeInit /\ TextIdle /\ DisplayIdle /\ ShapesIdle

\* analysis.py lines 30-40: the run starts and reports the first checkpoint
StartRun ==
    /\ pc = "idle"
    /\ \E place \in Places, sel \in SUBSET SiteNames, cl \in {"direct", "stub"} :
         /\ city' = place[1]
         /\ state' = place[2]
         /\ selected_websites' = sel
         /\ client' = cl
    /\ progress' = update_callback(progress, <<20>>)
    /\ pc' = "find"
    /\ UNCHANGED <<urls_to_search, found_properties, total_count, first_norm, fb_raised,
                   outer_raised, properties_data, properties, calls, market_analysis,
                   property_valuations, properties_for_valuation, properties_display,
                   outcome>>
    /\ UNCHANGED text_vars
    /\ UNCHANGED display_vars
    /\ UNCHANGED shape_vars

\* firecrawl_agent.py lines 43-63: build and filter the URLs, fail fast on none
FindStart ==
    /\ pc = "find"
    /\ client = "direct"
    /\ urls_to_search' = UrlsToSearch(city, state, selected_websites)
    /\ IF urls_to_search' = <<>>
         THEN /\ properties_data' = ErrorResult(Message("No websites selected", 0))
              /\ pc' = "found"
         ELSE /\ pc' = "extract"
              /\ UNCHANGED properties_data
    /\ UNCHANGED <<client, city, state, selected_websites, found_properties, total_count,
                   first_norm, fb_raised, outer_raised, properties, calls, progress,
                   market_analysis, property_valuations, properties_for_valuation,
                   properties_display, outcome>>
    /\ UNCHANGED text_vars
    /\ UNCHANGED display_vars
    /\ UNCHANGED shape_vars

\* an entry of the call log: the service, whether a schema was passed, the URL
\* list passed, and whether the call raised
ExtractCall(schema, raised) ==
    [svc |-> "extract", schema |-> schema, urls |-> urls_to_search, raised |-> raised]

LlmCall(svc, raised) == [svc |-> svc, schema |-> FALSE, urls |-> <<>>, raised |-> raised]

\* firecrawl_agent.py lines 109-138 (and 167-203 when no retry follows): the
\* first extraction call and the normalization of its response
FirstExtract ==
    /\ pc = "extract"
    /\ \/ \* the call raises: line 202
          /\ calls' = Append(calls, ExtractCall(TRUE, TRUE))
          /\ outer_raised' = TRUE
          /\ properties_data' = ErrorResult(Message("Firecrawl extraction failed", 0))
          /\ pc' = "found"
          /\ UNCHANGED <<found_properties, total_count, first_norm>>
       \/ \E r \in Responses :
            LET n == NormalizeFirst(r) IN
            /\ calls' = Append(calls, ExtractCall(TRUE, FALSE))
            /\ IF n.raised
              THEN /\ outer_raised' = TRUE
                   /\ properties_data' =
                          ErrorResult(Message("Firecrawl extraction failed", 0))
                   /\ pc' = "found"
                   /\ UNCHANGED <<found_properties, total_count, first_norm>>
              ELSE /\ found_properties' = n.properties
                   /\ total_count' = n.total_count
                   /\ first_norm' = [done |-> TRUE, properties |-> n.properties,
                                     total_count |-> n.total_count]
                   /\ UNCHANGED outer_raised
                   /\ IF NeedsFallback(n.properties, n.total_count)
                        THEN /\ pc' = "fallback"
                             /\ UNCHANGED properties_data
                        ELSE /\ pc' = "found"
                             /\ properties_data' =
                                    FindResult(n.properties, n.total_count,
                                               selected_websites)
    /\ UNCHANGED <<client, city, state, selected_websites, urls_to_search, fb_raised,
                   properties, progress, market_analysis, property_valuations,
                   properties_for_valuation, properties_display, outcome>>
    /\ UNCHANGED text_vars
    /\ UNCHANGED display_vars
    /\ UNCHANGED shape_vars

\* firecrawl_agent.py lines 139-203: the schema-free retry, whose errors are
\* swallowed, and the return
FallbackExtract ==
    /\ pc = "fallback"
    /\ \/ \* the call raises: line 164
          /\ calls' = Append(calls, ExtractCall(FALSE, TRUE))
          /\ fb_raised' = TRUE
          /\ UNCHANGED <<found_properties, total_count>>
       \/ \E r \in Responses :
            LET h == HandleFallback(r, found_properties, total_count) IN
            /\ calls' = Append(calls, ExtractCall(FALSE, FALSE))
            /\ found_properties' = h.properties
            /\ total_count' = h.total_count
            /\ fb_raised' = h.raised
    /\ outer_raised' = ReturnRaises(found_properties')
    /\ properties_data' = FindResult(found_properties', total_count', selected_websites)
    /\ pc' = "found"
    /\ UNCHANGED <<client, city, state, selected_websites, urls_to_search, first_norm,
                   properties, progress, market_analysis, property_valuations,
                   properties_for_valuation, properties_display, outcome>>
    /\ UNCHANGED text_vars
    /\ UNCHANGED display_vars
    /\ UNCHANGED shape_vars

\* a stubbed Extraction Client in place of lines 42-47 of analysis.py
StubFind ==
    /\ pc = "find"
    /\ client = "stub"
    /\ \E d \in StubResults(selected_websites) : properties_data' = d
    /\ pc' = "found"
    /\ UNCHANGED <<client, city, state, selected_websites, urls_to_search,
                   found_properties, total_count, first_norm, fb_raised, outer_raised,
                   properties, calls, progress, market_analysis, property_valuations,
                   properties_for_valuation, properties_display, outcome>>
    /\ UNCHANGED text_vars
    /\ UNCHANGED display_vars
    /\ UNCHANGED shape_vars

\* analysis.py lines 49-59: the two soft failures, else checkpoints 0.4 and 0.5
CheckExtraction ==
    /\ pc = "found"
    /\ IF HasError(properties_data)
         THEN /\ outcome' = ReturnString("Error in property search: ",
                                         properties_data.error)
              /\ pc' = "done"
              /\ UNCHANGED <<properties, progress>>
         ELSE /\ properties' = ResultProperties(properties_data)
              /\ IF NoProperties(properties')
                   THEN /\ outcome' =
                              ReturnString("No properties found matching your criteria.",
                                           Message("", 0))
                        /\ pc' = "done"
                        /\ UNCHANGED progress
                   ELSE /\ progress' = update_callback(progress, <<40, 50>>)
                        /\ pc' = "market"
                        /\ UNCHANGED outcome
    /\ UNCHANGED <<client, city, state, selected_websites, urls_to_search,
                   found_properties, total_count, first_norm, fb_raised, outer_raised,
                   properties_data, calls, market_analysis, property_valuations,
                   properties_for_valuation, properties_display>>
    /\ UNCHANGED text_vars
    /\ UNCHANGED display_vars
    /\ UNCHANGED shape_vars

\* analysis.py lines 75-106: the market-analysis call, checkpoints 0.7 and
\* 0.8, and the summaries for the valuation prompt
MarketRun ==
    /\ pc = "market"
    /\ \/ /\ calls' = Append(calls, LlmCall("market", TRUE))
          /\ outcome' = Raised("market")
          /\ pc' = "done"
          /\ UNCHANGED <<market_analysis, progress, properties_for_valuation>>
       \/ /\ calls' = Append(calls, LlmCall("market", FALSE))
          /\ \E t \in MarketTexts : market_analysis' = t
          /\ progress' = update_callback(progress, <<70, 80>>)
          /\ properties_for_valuation' = PropertiesForValuation(properties)
          /\ pc' = "valuation"
          /\ UNCHANGED outcome
    /\ UNCHANGED <<client, city, state, selected_websites, urls_to_search,
                   found_properties, total_count, first_norm, fb_raised, outer_raised,
                   properties_data, properties, property_valuations, properties_display>>
    /\ UNCHANGED text_vars
    /\ UNCHANGED display_vars
    /\ UNCHANGED shape_vars

\* analysis.py lines 130-222: the valuation call, checkpoints 0.9 and 0.95,
\* the synthesis, checkpoint 1.0 and the return
ValuationRun ==
    /\ pc = "valuation"
    /\ \/ /\ calls' = Append(calls, LlmCall("valuation", TRUE))
          /\ outcome' = Raised("valuation")
          /\ UNCHANGED <<property_valuations, progress, properties_display>>
       \/ /\ calls' = Append(calls, LlmCall("valuation", FALSE))
          /\ properties_display' = PropertiesDisplay(properties)
          /\ \E t \in ValuationTexts :
               /\ property_valuations' = t
               /\ IF JsonDumpsRaises(properties)
                    THEN /\ progress' = update_callback(progress, <<90, 95>>)
                         /\ outcome' = Raised("synthesis")
                    ELSE /\ progress' = update_callback(progress, <<90, 95, 100>>)
                         /\ \E urls \in {FindAll(AllText(properties, market_analysis, t))} :
                              \E order \in LinkOrders(urls) :
                                 outcome' = ReturnResult(
                                     PipelineResult(properties, market_analysis, t,
                                         PropertiesDisplay(properties),
                                         LinkSection(urls, order)))
    /\ pc' = "done"
    /\ UNCHANGED <<client, city, state, selected_websites, urls_to_search,
                   found_properties, total_count, first_norm, fb_raised, outer_raised,
                   properties_data, properties, market_analysis,
                   properties_for_valuation>>
    /\ UNCHANGED text_vars
    /\ UNCHANGED display_vars
    /\ UNCHANGED shape_vars

Next ==
    \/ StartRun
    \/ FindStart
    \/ FirstExtract
    \/ FallbackExtract
    \/ StubFind
    \/ CheckExtraction
    \/ MarketRun
    \/ ValuationRun

Spec == Init /\ [][Next]_vars

----------------------------------------------------------------------------
(* Properties of the Extraction Client *)

ExtractCalls == {i \in 1..Len(calls) : calls[i].svc = "extract"}
LlmCalls(svc) == {i \in 1..Len(calls) : calls[i].svc = svc}

\* the Extraction Client returned a result with the error key
IsErrorResult == "error" \in DOMAIN properties_data

\* the property list of the result the Extraction Client returned
ExtractedList ==
    IF "properties" \in DOMAIN properties_data THEN properties_data.properties ELSE <<>>

\* find_properties_direct has returned
FindReturned == client = "direct" /\ pc \in {"found", "market", "valuation", "done"}

\* the first token of the URL template of each known site
SitePrefix(site) ==
    CASE site = "Zillow" -> "https://www.zillow.com/homes/for_sale/"
      [] site = "Realtor.com" -> "https://www.realtor.com/realestateandhomes-search/"
      [] site = "Trulia" -> "https://www.trulia.com/"
      [] site = "Homes.com" -> "https://www.homes.com/homes-for-sale/"

\* C1: with no known site among selected_websites, find_properties_direct
\* returns the error result "No websites selected" and the extraction
\* service is never called.
C1_NoSiteNoCall ==
    (FindReturned /\ selected_websites \cap KnownSites = {})
        => /\ IsErrorResult
           /\ properties_data.error.text = "No websites selected"
           /\ ExtractCalls = {}

C1_Witness ==
    FindReturned /\ pc = "done" /\ selected_websites = {} /\ outcome.kind = "string"

\* C2: for a non-empty selection of known sites, the URL list passed to the
\* extraction service holds exactly one URL per selected site, no URL twice
\* and no URL of an unselected site.
C2_OneUrlPerSelectedSite ==
    (client = "direct" /\ pc \notin {"idle", "find"}
        /\ selected_websites # {} /\ selected_websites \subseteq KnownSites)
        => /\ Len(urls_to_search) = Cardinality(selected_websites)
           /\ \A a, b \in 1..Len(urls_to_search) :
                urls_to_search[a] = urls_to_search[b] => a = b
           /\ \A site \in KnownSites :
                Cardinality({a \in 1..Len(urls_to_search) :
                                urls_to_search[a][1] = SitePrefix(site)})
                    = IF site \in selected_websites THEN 1 ELSE 0
           /\ \A i \in ExtractCalls : calls[i].urls = urls_to_search
           /\ FindReturned => ExtractCalls # {}

C2_Witness ==
    /\ FindReturned
    /\ selected_websites = {"Zillow", "Trulia", "Homes.com"}
    /\ Cardinality(ExtractCalls) = 2
    /\ city = <<"N", " ", "Y">>

\* C3: a first response normalized to zero properties with total_count > 0
\* is followed by exactly one more, schema-free, extraction call; any other
\* normalized first response by none. No run issues more than two calls.
C3_OneFallbackExactlyWhenCounted ==
    /\ Cardinality(ExtractCalls) <= 2
    /\ (FindReturned /\ first_norm.done)
         => IF Len(first_norm.properties.v) = 0 /\ first_norm.total_count > 0
              THEN /\ Cardinality(ExtractCalls) = 2
                   /\ calls[1].schema /\ ~calls[2].schema
              ELSE Cardinality(ExtractCalls) = 1 /\ calls[1].schema

C3_Witness ==
    /\ FindReturned
    /\ first_norm.done
    /\ first_norm.total_count = 2
    /\ first_norm.properties = ListOf(<<>>)
    /\ Cardinality(ExtractCalls) = 2

C3_WitnessNoFallback ==
    /\ FindReturned
    /\ first_norm.done
    /\ first_norm.total_count = 0
    /\ first_norm.properties = ListOf(<<>>)
    /\ Cardinality(ExtractCalls) = 1

\* C4: when the retry raises (the second call or the handling of its
\* response), the locals properties and total_count are those normalized
\* from the first call and the result is that of the empty first response.
C4_FailedFallbackKeepsFirstResult ==
    (FindReturned /\ fb_raised)
        => /\ found_properties = first_norm.properties
           /\ total_count = first_norm.total_count
           /\ properties_data =
                  ErrorResult(Message("No properties extracted despite finding",
                                      first_norm.total_count))

\* C5 as stated: an error result exactly when no URL was eligible or an
\* extraction call raised; a success result otherwise.
C5_ErrorIffNoUrlOrCallRaised ==
    FindReturned =>
        (IsErrorResult
            <=> (urls_to_search = <<>> \/ \E i \in ExtractCalls : calls[i].raised))

\* C5 amended: an error result exactly when no URL was eligible, an exception
\* reached the outer handler, or the final property list is empty; otherwise
\* {success: true, properties, total_count: len(properties), source_websites}
\* with a non-empty list.
C5_ErrorIffNoUrlRaisedOrEmpty ==
    FindReturned =>
        /\ IsErrorResult
             <=> \/ urls_to_search = <<>>
                 \/ outer_raised
                 \/ found_properties = ListOf(<<>>)
        /\ ~IsErrorResult
             => /\ DOMAIN properties_data =
                       {"success", "properties", "total_count", "source_websites"}
                /\ properties_data.success
                /\ properties_data.properties = found_properties.v
                /\ Len(properties_data.properties) > 0
                /\ properties_data.total_count = Len(properties_data.properties)
                /\ properties_data.source_websites = selected_websites

C5_Witness ==
    /\ FindReturned
    /\ IsErrorResult
    /\ urls_to_search # <<>>
    /\ ~outer_raised
    /\ \A i \in ExtractCalls : ~calls[i].raised

----------------------------------------------------------------------------
(* Properties of the orchestrator *)

\* C6: on an error result of the Extraction Client the run returns a string
\* carrying that error, and neither LLM call is ever made.
C6_ErrorReturnsStringNoLlm ==
    IsErrorResult
        => /\ LlmCalls("market") = {} /\ LlmCalls("valuation") = {}
           /\ pc = "done"
                => /\ outcome.kind = "string"
                   /\ outcome.text = "Error in property search: "
                   /\ outcome.detail = properties_data.error

C6_Witness ==
    /\ pc = "done"
    /\ client = "direct"
    /\ IsErrorResult
    /\ properties_data.error.text = "Firecrawl extraction failed"
    /\ outcome.kind = "string"
    /\ outcome.detail = properties_data.error

\* C7: on a result without the error key whose property list is empty or
\* absent, the run returns exactly "No properties found matching your
\* criteria.", makes no LLM call and reports no checkpoint after 0.2.
C7_EmptyReturnsFixedMessage ==
    (pc \in {"market", "valuation", "done"} /\ ~IsErrorResult
        /\ ExtractedList = <<>>)
        => /\ pc = "done"
           /\ outcome.kind = "string"
           /\ outcome.text = "No properties found matching your criteria."
           /\ LlmCalls("market") = {} /\ LlmCalls("valuation") = {}
           /\ progress = <<20>>

C7_Witness ==
    /\ pc = "done"
    /\ ~IsErrorResult
    /\ "properties" \in DOMAIN properties_data
    /\ properties_data.properties = <<>>
    /\ outcome.kind = "string"

\* both narrative calls were made and returned
BothNarrativesReturned ==
    /\ \E i \in LlmCalls("market") : ~calls[i].raised
    /\ \E i \in LlmCalls("valuation") : ~calls[i].raised

\* C8: a run that returns normally returns a string exactly when extraction
\* signalled an error or yielded no property, and the result dict exactly
\* when it yielded a property and both narrative calls returned; the result
\* has a non-empty properties list and total_properties = len(properties).
C8_StringOrResult ==
    (pc = "done" /\ outcome.kind \in {"string", "result"})
        => /\ outcome.kind = "string"
                <=> (IsErrorResult
                        \/ ExtractedList = <<>>)
           /\ outcome.kind = "result"
                <=> /\ ~IsErrorResult
                    /\ ExtractedList # <<>>
                    /\ BothNarrativesReturned
           /\ outcome.kind = "result"
                => /\ Len(outcome.result.properties) > 0
                   /\ outcome.result.total_properties = Len(outcome.result.properties)

C8_Witness ==
    /\ pc = "done"
    /\ outcome.kind = "result"
    /\ outcome.result.total_properties = 2
    /\ client = "direct"

\* the value a property record gives for a field, or the default
Shows(shown, prop, name, default) ==
    IF prop[name] = Absent THEN shown = default ELSE shown = prop[name]

\* C9: the list extraction produced is passed on unchanged: summary k and
\* Markdown block k carry the number k and the fields of the k-th property,
\* and the returned result holds the same list in the same order.
C9_SameListSameOrder ==
    LET extracted == ExtractedList IN
    /\ pc \in {"market", "valuation"} => properties = extracted
    /\ pc = "valuation"
         => /\ Len(properties_for_valuation) = Len(extracted)
            /\ \A k \in 1..Len(extracted) :
                 /\ properties_for_valuation[k].number = k
                 /\ Shows(properties_for_valuation[k].address, extracted[k],
                          "address", "Address not available")
                 /\ Shows(properties_for_valuation[k].price, extracted[k],
                          "price", "Price not available")
                 /\ Shows(properties_for_valuation[k].bedrooms, extracted[k],
                          "bedrooms", "Not specified")
    /\ (pc = "done" /\ outcome.kind = "result")
         => /\ outcome.result.properties = extracted
            /\ Len(properties_display) = Len(extracted)
            /\ outcome.result.markdown_synthesis.blocks = properties_display
            /\ \A k \in 1..Len(extracted) :
                 /\ properties_display[k].number = k
                 /\ properties_for_valuation[k].number = k
                 /\ Shows(properties_display[k].address, extracted[k],
                          "address", "Address not available")
                 /\ Shows(properties_display[k].price, extracted[k],
                          "price", "Price not available")
                 /\ Shows(properties_display[k].bedrooms, extracted[k],
                          "bedrooms", "Not specified")

C9_Witness ==
    /\ pc = "done"
    /\ outcome.kind = "result"
    /\ Len(outcome.result.properties) = 2
    /\ outcome.result.properties[1].address = Absent
    /\ outcome.result.properties[2].address = "12 Oak St"

----------------------------------------------------------------------------
(* extract_property_valuation (utils/helpers.py) *)

\* str.strip() removes these
IsSpace(c) == c \in {" ", "\n"}

\* the number of characters a token stands for
CharLen(c) ==
    CASE c \in {"Property", "property"} -> 8
      [] c \in {"Oak", "oak", "Elm", "elm"} -> 3
      [] c \in {"St", "st"} -> 2
      [] OTHER -> 1

RECURSIVE StrLen(_)
StrLen(s) == IF s = <<>> THEN 0 ELSE CharLen(Head(s)) + StrLen(Tail(s))

RECURSIVE LStrip(_)
LStrip(s) == IF s # <<>> /\ IsSpace(Head(s)) THEN LStrip(Tail(s)) ELSE s

RECURSIVE RStrip(_)
RStrip(s) ==
    IF s # <<>> /\ IsSpace(s[Len(s)]) THEN RStrip(SubSeq(s, 1, Len(s) - 1)) ELSE s

\* s.strip()
Strip(s) == RStrip(LStrip(s))

\* s.startswith(p)
StartsWith(s, p) == Len(s) >= Len(p) /\ SubSeq(s, 1, Len(p)) = p

\* s.find(sub) + 1 for a non-empty sub: the first position of sub in s, or 0
Find(s, sub) ==
    LET hits == {i \in 1..(Len(s) - Len(sub) + 1) : SubSeq(s, i, i + Len(sub) - 1) = sub}
    IN IF hits = {} THEN 0 ELSE CHOOSE i \in hits : \A j \in hits : i <= j

\* sub in s
Contains(s, sub) == Find(s, sub) > 0

\* s.split(sep): the pieces between the non-overlapping occurrences of sep,
\* found left to right
RECURSIVE Split(_, _)
Split(s, sep) ==
    LET i == Find(s, sep)
    IN IF i = 0 THEN <<s>>
       ELSE <<SubSeq(s, 1, i - 1)>> \o Split(SubSeq(s, i + Len(sep), Len(s)), sep)

\* s.replace(old, new)
RECURSIVE Replace(_, _, _)
Replace(s, old, new) ==
    LET i == Find(s, old)
    IN IF i = 0 THEN s
       ELSE SubSeq(s, 1, i - 1) \o new
                \o Replace(SubSeq(s, i + Len(old), Len(s)), old, new)

\* s.split(): the maximal runs of non-space characters
RECURSIVE Words(_)
Words(s) ==
    LET t == LStrip(s)
        ends == {i \in 1..Len(t) : IsSpace(t[i])}
        n == IF ends = {} THEN Len(t) + 1 ELSE CHOOSE i \in ends : \A j \in ends : i <= j
    IN IF t = <<>> THEN <<>>
       ELSE <<SubSeq(t, 1, n - 1)>> \o Words(SubSeq(t, n, Len(t)))

\* one decimal digit as a character
Digit(d) ==
    CASE d = 0 -> "0" [] d = 1 -> "1" [] d = 2 -> "2" [] d = 3 -> "3" [] d = 4 -> "4"
      [] d = 5 -> "5" [] d = 6 -> "6" [] d = 7 -> "7" [] d = 8 -> "8" [] d = 9 -> "9"

\* f"{property_number}" for a non-negative int
RECURSIVE Str(_)
Str(n) == IF n < 10 THEN <<Digit(n)>> ELSE Str(n \div 10) \o <<Digit(n % 10)>>

\* the literal '**Property'
Marker == <<"*", "*", "Property">>

\* a final return that gives the empty string instead of the placeholder
Placeholder_Empty(n) == <<>>

\* line 46: the placeholder
Placeholder(n) ==
    Marker \o <<" ">> \o Str(n)
        \o <<" ", "Analysis", "*", "*", "\n",
             "Analysis: Individual assessment not available", "\n",
             "Recommendation: Review general market analysis in the Market Analysis tab">>

\* what a call gives: a string, None, or an exception
TextResult(t) == [kind |-> "text", text |-> t]
NoneResult == [kind |-> "none", text |-> <<>>]
RaiseResult == [kind |-> "raise", text |-> <<>>]

\* an address argument: a string, or None
AddressOf(a) == [k |-> "str", v |-> a]
NoAddress == [k |-> "none", v |-> <<>>]

\* the for loops return at the first section that matches: the least of the
\* matching positions, or 0 when the loop falls through
FirstIndex(hits) == IF hits = {} THEN 0 ELSE CHOOSE i \in hits : \A j \in hits : i <= j

\* line 26: section.strip().startswith(f"{property_number}:")
IsSectionOf(section, n) == StartsWith(Strip(section), Str(n) \o <<":">>)

\* lines 28-31: '**Property' put back, stripped, '***' collapsed
CleanSection(section) ==
    Replace(Replace(Strip(Marker \o section), <<"*", "*">>, <<"*", "*">>),
            <<"*", "*", "*">>, <<"*", "*">>)

\* lines 36-37: the paragraph mentions "Property N" or "#N"
MentionsNumber(section, n) ==
    \/ Contains(section, <<"Property", " ">> \o Str(n))
    \/ Contains(section, <<"#">> \o Str(n))

\* the short words dropped first and the first three taken of what is left
AddressWords_FilterFirst(a) ==
    LET long == SelectSeq(Words(Lower(a)), LAMBDA w : StrLen(w) > 2)
        first3 == SubSeq(long, 1, IF Len(long) < 3 THEN Len(long) ELSE 3)
    IN {first3[i] : i \in 1..Len(first3)}

\* line 42: the words of the address that are tried
AddressWords(a) ==
    LET words == Words(Lower(a))
        first3 == SubSeq(words, 1, IF Len(words) < 3 THEN Len(words) ELSE 3)
    IN {first3[i] : i \in {j \in 1..Len(first3) : StrLen(first3[j]) > 2}}

\* line 42: any(word in section.lower() for word in ...)
MentionsAddress(section, a) == \E w \in AddressWords(a) : Contains(Lower(section), w)

\* lines 6-46
extract_property_valuation(valuations, number, address) ==
    IF valuations = <<>> THEN NoneResult
    ELSE
      LET sections == Split(valuations, Marker)
          i1 == FirstIndex({i \in 1..Len(sections) : IsSectionOf(sections[i], number)})
          all_sections == Split(valuations, <<"\n", "\n">>)
          i2 == FirstIndex({i \in 1..Len(all_sections) :
                               MentionsNumber(all_sections[i], number)})
          i3 == FirstIndex({i \in 1..Len(all_sections) :
                               MentionsAddress(all_sections[i], address.v)})
      IN IF i1 > 0 THEN TextResult(CleanSection(sections[i1]))
         ELSE IF i2 > 0 THEN TextResult(all_sections[i2])
         ELSE IF address.k = "none" THEN RaiseResult
         ELSE IF i3 > 0 THEN TextResult(all_sections[i3])
         ELSE TextResult(Placeholder(number))

----------------------------------------------------------------------------
(* The section extractor applied to bounded inputs *)

\* the pieces valuation texts are assembled from
Segments ==
    { Marker \o <<" ", "1", ":">>,
      Marker \o <<" ", "2", ":">>,
      Marker,
      <<"1", ":">>,
      <<" ">>,
      <<"\n", "\n">>,
      <<"x">>,
      <<"Property", " ", "1">>,
      <<"#", "1">>,
      <<"0">>,
      <<"oak">>,
      <<"*">> }

RECURSIVE Concat(_)
Concat(ss) == IF ss = <<>> THEN <<>> ELSE Head(ss) \o Concat(Tail(ss))

Texts == {Concat(ss) : ss \in SeqsUpTo(Segments, MaxSegs)}

PropertyNumbers == {1, 2}

Addresses ==
    { AddressOf(<<"1", "2", " ", "Oak", " ", "St">>),
      AddressOf(<<"7", " ", "N", " ", "x", " ", "Oak">>),
      AddressOf(<<>>),
      NoAddress }

TextInit ==
    /\ PipeInit
    /\ DisplayIdle
    /\ ShapesIdle
    /\ tx_pc = "call"
    /\ tx_text \in Texts
    /\ tx_number \in PropertyNumbers
    /\ tx_address \in Addresses
    /\ tx_result = NoneResult

\* display.py calls extract_property_valuation(property_valuations, i, address)
ExtractSection ==
    /\ tx_pc = "call"
    /\ tx_result' = extract_property_valuation(tx_text, tx_number, tx_address)
    /\ tx_pc' = "done"
    /\ UNCHANGED <<tx_text, tx_number, tx_address>>
    /\ UNCHANGED pipe_vars
    /\ UNCHANGED display_vars
    /\ UNCHANGED shape_vars

TextNext == ExtractSection

SpecText == TextInit /\ [][TextNext]_vars

----------------------------------------------------------------------------
(* Properties of the section extractor *)

\* the header the valuation prompt mandates for property n: '**Property n:'
Header(n) == Marker \o <<" ">> \o Str(n) \o <<":">>

\* C10: when the text holds a fragment headed '**Property N:', the result
\* is that fragment: it starts with '**Property N:', holds no further
\* '**Property' marker, is trimmed, and occurs in the text.
C10_ReturnsHeadedFragment ==
    (tx_pc = "done" /\ Contains(tx_text, Header(tx_number)))
        => /\ tx_result.kind = "text"
           /\ StartsWith(tx_result.text, Header(tx_number))
           /\ ~Contains(SubSeq(tx_result.text, 2, Len(tx_result.text)), Marker)
           /\ tx_result.text = Strip(tx_result.text)
           /\ Contains(tx_text, tx_result.text)

\* the three tiers, as conditions on the inputs
Tier1Matches(text, n) ==
    \E i \in 1..Len(Split(text, Marker)) : IsSectionOf(Split(text, Marker)[i], n)

Tier2Matches(text, n) ==
    \E i \in 1..Len(Split(text, <<"\n", "\n">>)) :
        MentionsNumber(Split(text, <<"\n", "\n">>)[i], n)

Tier3Matches(text, a) ==
    \E i \in 1..Len(Split(text, <<"\n", "\n">>)) :
        MentionsAddress(Split(text, <<"\n", "\n">>)[i], a)

NoTierMatches ==
    /\ ~Tier1Matches(tx_text, tx_number)
    /\ ~Tier2Matches(tx_text, tx_number)
    /\ ~Tier3Matches(tx_text, tx_address.v)

\* the sentence every placeholder carries
NotAvailable == <<"Analysis: Individual assessment not available">>

\* C11 as stated: for every text, number and string address the call does
\* not raise and gives a non-empty string, the placeholder when no tier
\* matches.
C11_NeverAbsentNorEmpty ==
    (tx_pc = "done" /\ tx_address.k = "str")
        => /\ tx_result.kind = "text"
           /\ tx_result.text # <<>>
           /\ NoTierMatches => Contains(tx_result.text, NotAvailable)

\* C11 amended: the empty text gives None; for every non-empty text, number
\* and string address the call does not raise and gives a non-empty string,
\* the placeholder when no tier matches.
C11_AbsentOnlyForEmptyText ==
    (tx_pc = "done" /\ tx_address.k = "str")
        => /\ tx_text = <<>> => tx_result.kind = "none"
           /\ tx_text # <<>> =>
                 /\ tx_result.kind = "text"
                 /\ tx_result.text # <<>>
                 /\ NoTierMatches => Contains(tx_result.text, NotAvailable)

C11_Witness ==
    /\ tx_pc = "done"
    /\ tx_address.k = "str"
    /\ tx_text # <<>>
    /\ NoTierMatches
    /\ tx_result.kind = "text"
    /\ Contains(tx_result.text, NotAvailable)

\* the paragraphs of a text, and the first of them that holds, in lower
\* case, one of the given words (0 when none does)
Paragraphs(text) == Split(text, <<"\n", "\n">>)

FirstParagraphWith(text, words) ==
    LET hits == {i \in 1..Len(Paragraphs(text)) :
                    \E w \in words : Contains(Lower(Paragraphs(text)[i]), w)}
    IN IF hits = {} THEN 0 ELSE CHOOSE i \in hits : \A j \in hits : i <= j

\* the lower-cased words of an address longer than 2 characters
LongWords(a) == SelectSeq(Words(Lower(a)), LAMBDA w : StrLen(w) > 2)

\* the first three of the long words
FirstThreeOfLong(a) == {LongWords(a)[i] : i \in {j \in 1..Len(LongWords(a)) : j <= 3}}

\* the long ones of the first three words
LongOfFirstThree(a) ==
    {Words(Lower(a))[i] : i \in {j \in 1..Len(Words(Lower(a))) :
                                     j <= 3 /\ StrLen(Words(Lower(a))[j]) > 2}}

\* tier 3 is reached: a non-empty text, a string address, tiers 1 and 2 miss
Tier3Reached ==
    /\ tx_pc = "done"
    /\ tx_text # <<>>
    /\ tx_address.k = "str"
    /\ ~Tier1Matches(tx_text, tx_number)
    /\ ~Tier2Matches(tx_text, tx_number)

\* C12 as stated: when tiers 1 and 2 miss, the result is the first paragraph
\* that holds one of the first three long words of the address, the short
\* words being skipped before the three are taken.
C12_ShortWordsSkippedFirst ==
    (Tier3Reached /\ FirstParagraphWith(tx_text, FirstThreeOfLong(tx_address.v)) > 0)
        => tx_result = TextResult(Paragraphs(tx_text)[
                           FirstParagraphWith(tx_text, FirstThreeOfLong(tx_address.v))])

\* C12 amended: when tiers 1 and 2 miss, the result is the first paragraph
\* that holds one of those of the first three words of the address that are
\* longer than 2 characters; when no paragraph does, it is the placeholder.
C12_FirstThreeThenLong ==
    Tier3Reached
        => IF FirstParagraphWith(tx_text, LongOfFirstThree(tx_address.v)) > 0
           THEN tx_result = TextResult(Paragraphs(tx_text)[
                                FirstParagraphWith(tx_text, LongOfFirstThree(tx_address.v))])
           ELSE /\ tx_result.kind = "text"
                /\ Contains(tx_result.text, NotAvailable)

\* a paragraph is returned for an address whose first three words hold a
\* short one, and it is not the first paragraph of the text
C12_Witness ==
    /\ Tier3Reached
    /\ \E j \in 1..Len(Words(tx_address.v)) : j <= 3 /\ StrLen(Words(tx_address.v)[j]) <= 2
    /\ FirstParagraphWith(tx_text, LongOfFirstThree(tx_address.v)) > 1
    /\ tx_result = TextResult(Paragraphs(tx_text)[
                        FirstParagraphWith(tx_text, LongOfFirstThree(tx_address.v))])

----------------------------------------------------------------------------
(* Properties of the progress checkpoints *)

\* the fractions 0.2, 0.4, 0.5, 0.7, 0.8, 0.9, 0.95, 1.0 in hundredths
Checkpoints == <<20, 40, 50, 70, 80, 90, 95, 100>>

IsPrefix(s, t) == Len(s) <= Len(t) /\ \A i \in 1..Len(s) : s[i] = t[i]

\* C15: in every run the fractions given to the progress callback are a
\* prefix of 0.2, 0.4, 0.5, 0.7, 0.8, 0.9, 0.95, 1.0; a run that has ended
\* delivered all of them exactly when it returned a PipelineResult; 1.0 is
\* delivered only after both narrative calls returned; a run that ended with
\* a soft-failure string delivered 0.2 alone.
C15_ProgressIsPrefix ==
    /\ IsPrefix(progress, Checkpoints)
    /\ pc = "done" => (progress = Checkpoints <=> outcome.kind = "result")
    /\ (\E i \in 1..Len(progress) : progress[i] = 100) => BothNarrativesReturned
    /\ (pc = "done" /\ outcome.kind = "string") => progress = <<20>>

\* a run returned a PipelineResult with every checkpoint delivered
C15_Witness ==
    /\ pc = "done"
    /\ outcome.kind = "result"
    /\ progress = Checkpoints
    /\ BothNarrativesReturned

\* a run ended by an exception of the valuation call after five checkpoints
C15_WitnessCutShort ==
    /\ pc = "done"
    /\ outcome.kind = "raised"
    /\ progress = <<20, 40, 50, 70, 80>>

----------------------------------------------------------------------------
(* Properties of exceptions raised by the external calls *)

Delivered(fraction) == \E i \in 1..Len(progress) : progress[i] = fraction

\* C16 as stated: an exception raised by an external call, the extraction
\* call included, leaves the entry point: the run ends with the exception and
\* not with a string or a PipelineResult, no later call is made and 1.0 is not
\* delivered.
C16_EveryExternalExceptionPropagates ==
    \A i \in 1..Len(calls) :
        calls[i].raised
            => /\ i = Len(calls)
               /\ ~Delivered(100)
               /\ pc = "done" => outcome.kind = "raised"

\* C16 amended: an exception raised by an LLM call ends the run with that
\* exception, with no later call and without 1.0; an exception raised by an
\* extraction call is caught in the Extraction Client: the run ends with a
\* soft-failure string and without an LLM call.
C16_OnlyLlmExceptionPropagates ==
    \A i \in 1..Len(calls) :
        calls[i].raised
            => /\ ~Delivered(100)
               /\ calls[i].svc # "extract"
                    => /\ i = Len(calls)
                       /\ pc = "done"
                       /\ outcome.kind = "raised"
               /\ calls[i].svc = "extract"
                    => /\ LlmCalls("market") = {} /\ LlmCalls("valuation") = {}
                       /\ pc = "done" => outcome.kind = "string"

\* the market call raised after an extraction that raised nothing
C16_Witness ==
    /\ pc = "done"
    /\ calls # <<>>
    /\ calls[Len(calls)].svc = "market"
    /\ calls[Len(calls)].raised
    /\ outcome.kind = "raised"
    /\ progress = <<20, 40, 50>>

\* the first extraction call raised and the run ended with a string
C16_WitnessExtraction ==
    /\ pc = "done"
    /\ Len(calls) = 1
    /\ calls[1].svc = "extract"
    /\ calls[1].raised
    /\ outcome.kind = "string"

----------------------------------------------------------------------------
(* Properties of runs over attribute-style records *)

\* the mapping-style record with the fields of an attribute-style one
AsMapping(prop) == [prop EXCEPT !.shape = "dict"]

\* C18: a run whose extracted properties hold attribute-style records, and
\* whose LLM calls both return, ends with a PipelineResult, and the summaries
\* it made are those of the equivalent mapping-style records.
C18_ObjectRecordsComplete ==
    (/\ pc = "done"
     /\ BothNarrativesReturned
     /\ \E i \in 1..Len(properties) : properties[i].shape = "object")
        => /\ outcome.kind = "result"
           /\ properties_for_valuation =
                  [i \in 1..Len(properties) |-> Summary(i, AsMapping(properties[i]))]

----------------------------------------------------------------------------
(* Properties of the order of the external calls *)

\* the place of a service in the fixed order
Stage(svc) == CASE svc = "extract" -> 1 [] svc = "market" -> 2 [] svc = "valuation" -> 3

\* C19: the external calls are made in the order extraction call(s), market
\* call, valuation call, one after the other has returned; each LLM call is
\* made at most once, only after the extraction returned a non-empty list,
\* and the valuation call only after the market call returned.
C19_CallsInStageOrder ==
    /\ \A i, j \in 1..Len(calls) : i < j => Stage(calls[i].svc) <= Stage(calls[j].svc)
    /\ \A i \in 1..Len(calls) : calls[i].raised => i = Len(calls) \/ calls[i].svc = "extract"
    /\ Cardinality(LlmCalls("market")) <= 1
    /\ Cardinality(LlmCalls("valuation")) <= 1
    /\ (LlmCalls("market") # {} \/ LlmCalls("valuation") # {})
          => /\ pc \in {"valuation", "done"}
             /\ ExtractedList # <<>>
    /\ LlmCalls("valuation") # {}
          => \E i \in LlmCalls("market") :
                ~calls[i].raised /\ \A j \in LlmCalls("valuation") : i < j

\* a run made both extraction calls and then both LLM calls
C19_Witness ==
    /\ pc = "done"
    /\ Len(calls) = 4
    /\ calls[1].svc = "extract" /\ calls[2].svc = "extract"
    /\ calls[3].svc = "market" /\ calls[4].svc = "valuation"
    /\ ExtractedList # <<>>

----------------------------------------------------------------------------
(* Properties of the synthesized Markdown *)

\* the URLs found in the text the returned result was synthesized from
FoundUrls ==
    FindAll(AllText(outcome.result.properties, outcome.result.market_analysis,
                    outcome.result.property_valuations))

\* the lines of the link section of the returned Markdown
LinkItems == outcome.result.markdown_synthesis.links.items

\* C13: the link section of the synthesized Markdown lists every distinct
\* URL found in property data, market narrative and valuation narrative
\* exactly once, however often it occurs, numbered consecutively from 1;
\* the section is absent exactly when no URL is found.
C13_EachDistinctUrlOnce ==
    (pc = "done" /\ outcome.kind = "result")
        => \A urls \in {FoundUrls} : \A items \in {LinkItems} :
              /\ outcome.result.markdown_synthesis.links.present <=> urls # <<>>
              /\ \A k \in 1..Len(urls) :
                    Cardinality({i \in 1..Len(items) : items[i].url = urls[k]}) = 1
              /\ \A i \in 1..Len(items) :
                    /\ items[i].n = i
                    /\ \E k \in 1..Len(urls) : urls[k] = items[i].url

\* a URL that occurs more than once is listed among several
C13_Witness ==
    /\ pc = "done"
    /\ outcome.kind = "result"
    /\ \E j, k \in 1..Len(FoundUrls) : j # k /\ FoundUrls[j] = FoundUrls[k]
    /\ Len(LinkItems) > 1
    /\ Len(LinkItems) < Len(FoundUrls)
    /\ outcome.result.markdown_synthesis.links.present

----------------------------------------------------------------------------
(* display_properties_professionally: the average price *)

\* the price of a record: a string, None, or no such key / attribute
PriceOf(t) == [k |-> "str", v |-> t]
NoPrice == [k |-> "none", v |-> <<>>]
AbsentPrice == [k |-> "absent", v |-> <<>>]

\* display.py line 28: the text the orchestrator puts for a missing price
PriceNotAvailable == <<"Price not available">>

\* the characters int() reads as decimal digits
DecimalDigits == {"0", "1", "2", "3", "4", "5", "6", "7", "8", "9"}

\* line 30: str.isdigit: the decimal digits, and characters such as the
\* superscript two ("sup2") that are digits but that int() does not read
IsDigit(c) == c \in DecimalDigits \cup {"sup2"}

\* line 30: ''.join(filter(str.isdigit, str(price_str)))
RECURSIVE FilterDigits(_)
FilterDigits(t) ==
    IF t = <<>> THEN <<>>
    ELSE (IF IsDigit(Head(t)) THEN <<Head(t)>> ELSE <<>>) \o FilterDigits(Tail(t))

\* line 32: int(price_num) raises ValueError on a digit that is not decimal
IntRaises(digits) == \E i \in 1..Len(digits) : digits[i] \notin DecimalDigits

DigitValue(c) == CHOOSE d \in 0..9 : Digit(d) = c

\* line 32: int(price_num)
RECURSIVE IntOf(_)
IntOf(digits) ==
    IF digits = <<>> THEN 0
    ELSE 10 * IntOf(SubSeq(digits, 1, Len(digits) - 1)) + DigitValue(digits[Len(digits)])

\* line 27: p.get('price', '') / getattr(p, 'price', '')
PriceStr(p) == IF p.price.k = "absent" THEN PriceOf(<<>>) ELSE p.price

\* lines 28-34: what one record adds to prices
PriceEntry(p) ==
    LET price_str == PriceStr(p)
        price_num == FilterDigits(price_str.v)
    IN IF price_str.k = "str" /\ price_str.v # <<>> /\ price_str.v # PriceNotAvailable
          /\ price_num # <<>> /\ ~IntRaises(price_num)
       THEN <<IntOf(price_num)>>
       ELSE <<>>

\* lines 25-34
RECURSIVE Prices(_)
Prices(props) ==
    IF props = <<>> THEN <<>> ELSE PriceEntry(Head(props)) \o Prices(Tail(props))

\* sum(prices)
RECURSIVE Sum(_)
Sum(ns) == IF ns = <<>> THEN 0 ELSE Head(ns) + Sum(Tail(ns))

\* f"{n:,}": the decimal digits in groups of three
RECURSIVE Commas(_)
Commas(n) ==
    IF n < 1000 THEN Str(n)
    ELSE Commas(n \div 1000)
         \o <<",", Digit((n % 1000) \div 100), Digit((n % 100) \div 10), Digit(n % 10)>>

\* the sum divided by the number of records instead of the number of prices
AvgPrice_OverAllRecords(props) ==
    IF Prices(props) = <<>> THEN <<"N", "/", "A">>
    ELSE <<"$">> \o Commas(Sum(Prices(props)) \div Len(props))

\* line 35: f"${sum(prices) // len(prices):,}" if prices else "N/A"
AvgPrice(props) ==
    IF Prices(props) = <<>> THEN <<"N", "/", "A">>
    ELSE <<"$">> \o Commas(Sum(Prices(props)) \div Len(Prices(props)))

\* the records the display is given: the shape and the price of each
ShownPool ==
    [shape : {"dict"},
     price : { PriceOf(<<"$", "5", "0", "0", ",", "0", "0", "0">>),
               PriceOf(<<"$", "7", "5", "0", ",", "0", "0", "0">>),
               PriceOf(<<"$", "1", ".", "5", "M">>),
               PriceOf(<<"9", "sup2">>),
               PriceOf(<<"C", "a", "l", "l">>),
               PriceOf(PriceNotAvailable),
               PriceOf(<<>>),
               NoPrice,
               AbsentPrice }]
    \cup [shape : {"object"},
          price : {PriceOf(<<"$", "7", "5", "0", ",", "0", "0", "0">>), AbsentPrice}]

DisplayInit ==
    /\ PipeInit
    /\ TextIdle
    /\ ShapesIdle
    /\ dp_pc = "call"
    /\ dp_properties \in SeqsUpTo(ShownPool, MaxShown)
    /\ dp_avg_price = <<>>

\* display.py lines 24-36: the metric "Average Price"
ShowAveragePrice ==
    /\ dp_pc = "call"
    /\ dp_avg_price' = AvgPrice(dp_properties)
    /\ dp_pc' = "done"
    /\ UNCHANGED dp_properties
    /\ UNCHANGED pipe_vars
    /\ UNCHANGED text_vars
    /\ UNCHANGED shape_vars

DisplayNext == ShowAveragePrice

SpecDisplay == DisplayInit /\ [][DisplayNext]_vars

----------------------------------------------------------------------------
(* Properties of the average price *)

\* the price of the i-th record shown is numeric-parseable: a non-empty
\* string other than "Price not available" with at least one digit, all of
\* its digits decimal
Parseable(i) ==
    LET price == dp_properties[i].price
    IN /\ price.k = "str"
       /\ price.v # PriceNotAvailable
       /\ \E j \in 1..Len(price.v) : IsDigit(price.v[j])
       /\ \A j \in 1..Len(price.v) : IsDigit(price.v[j]) => price.v[j] \in DecimalDigits

\* the integer formed by the digits of the i-th price
DigitsValue(i) == IntOf(FilterDigits(dp_properties[i].price.v))

\* the sum of the integers of the parseable prices among the first n records
RECURSIVE ParseableSum(_)
ParseableSum(n) ==
    IF n = 0 THEN 0
    ELSE ParseableSum(n - 1) + (IF Parseable(n) THEN DigitsValue(n) ELSE 0)

ParseableCount == Cardinality({i \in 1..Len(dp_properties) : Parseable(i)})

\* the example of the specification
ExamplePrices ==
    << PriceOf(<<"$", "5", "0", "0", ",", "0", "0", "0">>),
       PriceOf(<<"$", "7", "5", "0", ",", "0", "0", "0">>),
       PriceOf(PriceNotAvailable) >>

\* C14: the average price shown is "$" and the floor of sum / count over
\* exactly the numeric-parseable prices, each counted as the integer its
\* digits form; "N/A" is shown when no price is parseable; the prices
\* $500,000, $750,000 and "Price not available" give $625,000.
C14_FloorMeanOfParseable ==
    dp_pc = "done"
        => /\ ParseableCount = 0 => dp_avg_price = <<"N", "/", "A">>
           /\ ParseableCount > 0 =>
                 \A total \in {ParseableSum(Len(dp_properties))} :
                    \A q \in {total \div ParseableCount} :
                       /\ q * ParseableCount <= total
                       /\ total < (q + 1) * ParseableCount
                       /\ dp_avg_price = <<"$">> \o Commas(q)
           /\ [i \in 1..Len(dp_properties) |-> dp_properties[i].price] = ExamplePrices
                 => dp_avg_price = <<"$", "6", "2", "5", ",", "0", "0", "0">>

\* the example has been shown
C14_Witness ==
    /\ dp_pc = "done"
    /\ [i \in 1..Len(dp_properties) |-> dp_properties[i].price] = ExamplePrices
    /\ dp_avg_price = <<"$", "6", "2", "5", ",", "0", "0", "0">>

----------------------------------------------------------------------------
(* find_properties_direct on object-style and mapping-style responses *)

\* firecrawl_agent.py lines 120-203: the value returned for a first response
\* and, when line 138 asks for the retry, a second one, neither call raising
find_properties_direct(first, retry, sel) ==
    LET n == NormalizeFirst(first)
        h == HandleFallback(retry, n.properties, n.total_count)
    IN IF n.raised THEN ErrorResult(Message("Firecrawl extraction failed", 0))
       ELSE IF NeedsFallback(n.properties, n.total_count)
            THEN FindResult(h.properties, h.total_count, sel)
            ELSE FindResult(n.properties, n.total_count, sel)

\* the same success flag and payload in the other style
InShape(r, shape) == [r EXCEPT !.shape = shape]

\* the responses as objects; each stands for itself and for its mapping twin
ObjectResponses == {r \in Responses : r.shape = "object"}

ShapesInit ==
    /\ PipeInit
    /\ TextIdle
    /\ DisplayIdle
    /\ nm_pc = "call"
    /\ nm_first \in ObjectResponses
    /\ nm_retry \in ObjectResponses
    /\ nm_results = <<>>

\* the two calls, served the same flags and payloads in the two styles
FindInBothShapes ==
    /\ nm_pc = "call"
    /\ nm_results' =
          [object |-> find_properties_direct(nm_first, nm_retry, {"Zillow"}),
           mapping |-> find_properties_direct(InShape(nm_first, "mapping"),
                                              InShape(nm_retry, "mapping"), {"Zillow"})]
    /\ nm_pc' = "done"
    /\ UNCHANGED <<nm_first, nm_retry>>
    /\ UNCHANGED pipe_vars
    /\ UNCHANGED text_vars
    /\ UNCHANGED display_vars

ShapesNext == FindInBothShapes

SpecShapes == ShapesInit /\ [][ShapesNext]_vars

\* C17: served responses with the same success flags and the same payloads
\* (a missing or non-mapping data payload included), find_properties_direct
\* returns the same result whether they are objects or plain mappings.
C17_ShapesTreatedAlike ==
    nm_pc = "done" => nm_results.object = nm_results.mapping

----------------------------------------------------------------------------
(* The section returned and the property asked for *)

\* the n-th property is named at position k of a section: "Property n", "#n"
\* or "n:" starts there and no further digit follows the number
NamesAt(section, k, mention) ==
    /\ k + Len(mention) - 1 <= Len(section)
    /\ SubSeq(section, k, k + Len(mention) - 1) = mention
    /\ k + Len(mention) <= Len(section) => section[k + Len(mention)] \notin DecimalDigits

Names(section, n) ==
    \E k \in 1..Len(section) :
        \/ NamesAt(section, k, <<"Property", " ">> \o Str(n))
        \/ NamesAt(section, k, <<"#">> \o Str(n))
        \/ NamesAt(section, k, Str(n) \o <<":">>)

\* C20: when tier 1 or tier 2 returns a section for property N, that section
\* names property N itself; it is not one that names only another number,
\* such as "Property 10" or "#12" for N = 1.
C20_SectionNamesOwnNumber ==
    (/\ tx_pc = "done"
     /\ tx_result.kind = "text"
     /\ tx_text # <<>>
     /\ Tier1Matches(tx_text, tx_number) \/ Tier2Matches(tx_text, tx_number))
        => Names(tx_result.text, tx_number)

----------------------------------------------------------------------------
(* The orchestrator composed with DirectFirecrawlAgent *)

\* C21: a result of find_properties_direct without the error key has a
\* non-empty properties list and a total_count equal to its length; so a run
\* with this client never returns "No properties found matching your
\* criteria.": every run that extracted no property ends with the string
\* "Error in property search: ...".
C21_NoPropertiesBranchUnreachable ==
    client = "direct"
        => /\ (FindReturned /\ ~IsErrorResult)
                 => /\ "properties" \in DOMAIN properties_data
                    /\ properties_data.properties # <<>>
                    /\ properties_data.total_count = Len(properties_data.properties)
           /\ (pc = "done" /\ outcome.kind = "string")
                 => /\ outcome.text # "No properties found matching your criteria."
                    /\ outcome.text = "Error in property search: "
           /\ (pc = "done" /\ ExtractedList = <<>>)
                 => /\ IsErrorResult
                    /\ outcome.kind = "string"
                    /\ outcome.text = "Error in property search: "

\* the service answered, nothing raised, no property was extracted, and the
\* run ended with the error string
C21_Witness ==
    /\ client = "direct"
    /\ pc = "done"
    /\ ExtractCalls # {}
    /\ \A i \in ExtractCalls : ~calls[i].raised
    /\ ~outer_raised
    /\ found_properties = ListOf(<<>>)
    /\ outcome.kind = "string"
    /\ outcome.text = "Error in property search: "

\* the service answered with properties and the run went past the check
C21_WitnessSuccess ==
    /\ client = "direct"
    /\ pc = "market"
    /\ ~IsErrorResult
    /\ properties_data.properties # <<>>

====
